---- MODULE Spec2Model ----
(***************************************************************************)
(* SocketLink: the room directory, the per-socket session state and the    *)
(* Socket.IO event handlers of src/src/controllers/socket.controller.js,   *)
(* behind the admission middleware authenticateSocket.                     *)
(*                                                                         *)
(* Node runs every handler to completion on one thread, so each handler is *)
(* one atomic action.  A handler is written as an operator from the state  *)
(* before it (rooms, sockets) and its payload to the state after it and    *)
(* the list of events it emitted; the action applies the operator.         *)
(* The HTTP handlers register and login of auth.controller.js are async:   *)
(* each is two actions, one up to its await and one from it on.            *)
(***************************************************************************)
EXTENDS Integers, Sequences, FiniteSets, TLC

VARIABLES rooms, sock, out, last, listening, now, users, req

vars == <<rooms, sock, out, last, listening, now, users, req>>

(***************************************************************************)
(* Bound of the model: connection attempts over the life of the process.   *)
(***************************************************************************)
NumSockets == 2

Sockets == 1..NumSockets

\* requests to /api/auth over the life of the process
NumRequests == 2

Requests == 1..NumRequests

(***************************************************************************)
(* JavaScript values that reach the handlers as payload fields.            *)
(* A string is its sequence of characters.                                 *)
(***************************************************************************)
Undefined == [type |-> "undefined", chars |-> <<>>]
Null == [type |-> "null", chars |-> <<>>]
Str(cs) == [type |-> "string", chars |-> cs]
\* a non-zero number, the non-string truthy payload
Num == [type |-> "number", chars |-> <<>>]
\* in place of a payload field: the event came with no payload object at
\* all, so the handler's data is undefined
NoPayload == [type |-> "nopayload", chars |-> <<>>]

\* !v
Truthy(v) ==
    CASE v.type = "undefined" -> FALSE
      [] v.type = "null" -> FALSE
      [] v.type = "string" -> v.chars # <<>>
      [] OTHER -> TRUE

\* String.prototype.trim on a sequence of characters
RECURSIVE TrimLeft(_)
TrimLeft(cs) ==
    IF cs # <<>> /\ Head(cs) = " " THEN TrimLeft(Tail(cs)) ELSE cs

RECURSIVE TrimRight(_)
TrimRight(cs) ==
    IF cs # <<>> /\ cs[Len(cs)] = " "
    THEN TrimRight(SubSeq(cs, 1, Len(cs) - 1))
    ELSE cs

Trim(cs) == TrimRight(TrimLeft(cs))

\* socket.id: the transport gives every connection its own id
SocketId(s) == Str(<<"#", ToString(s)>>)

(***************************************************************************)
(* Tokens and the verifier (jwt.verify).                                   *)
(***************************************************************************)
Users == {"alice", "bob"}

UserIdOf(u) == <<"id", u>>

NoToken == [kind |-> "none", username |-> ""]
ValidToken(u) == [kind |-> "valid", username |-> u]
ExpiredToken == [kind |-> "expired", username |-> "alice"]
MalformedToken == [kind |-> "malformed", username |-> ""]
NotYetValidToken == [kind |-> "notbefore", username |-> "alice"]

Tokens ==
    {NoToken, ExpiredToken, MalformedToken, NotYetValidToken}
        \cup {ValidToken(u) : u \in Users}

\* jwt.verify(token, secret) at time t: the decoded payload, or the error it
\* throws.  The clock has two times: every token that verifies at time 0
\* has its exp at time 1.
JwtVerify(token, t) ==
    CASE token.kind = "valid" /\ t = 0 ->
            [ok |-> TRUE, error |-> "", message |-> "",
             userId |-> UserIdOf(token.username), username |-> token.username]
      [] token.kind \in {"valid", "expired"} ->
            [ok |-> FALSE, error |-> "TokenExpiredError", message |-> "jwt expired",
             userId |-> <<>>, username |-> ""]
      [] token.kind = "malformed" ->
            [ok |-> FALSE, error |-> "JsonWebTokenError", message |-> "jwt malformed",
             userId |-> <<>>, username |-> ""]
      [] token.kind = "none" ->
            [ok |-> FALSE, error |-> "JsonWebTokenError",
             message |-> "jwt must be provided", userId |-> <<>>, username |-> ""]
      [] OTHER ->
            [ok |-> FALSE, error |-> "NotBeforeError", message |-> "jwt not active",
             userId |-> <<>>, username |-> ""]

(***************************************************************************)
(* State.                                                                  *)
(*   rooms : the Map roomName -> Set of usernames                          *)
(*   sock  : per connection, the fields of the socket object               *)
(*   out   : the events emitted by the last handler, in order              *)
(*   last  : the last event handled (which handler, whose, its payload)    *)
(*   listening : the server is up (FALSE once shutdown() has run)          *)
(*   now   : the clock jwt.verify reads                                    *)
(*   users : the Map username -> user record of auth.controller.js         *)
(*   req   : the HTTP requests to /api/auth, each with its position in its *)
(*           async handler and its response                                *)
(***************************************************************************)
\* socket.currentRoom is undefined until the first join and null after a
\* leave; the handlers only test it for truth, so one value stands for both
NoRoom == Null

NewSocket ==
    [status |-> "new", userId |-> <<>>, username |-> "",
     currentRoom |-> NoRoom, rooms |-> {}]

\* new Map()
EmptyDirectory == [r \in {} |-> {}]

\* const users = new Map()
NoUsers == [u \in {} |-> {}]

\* a request that has not arrived yet
NewRequest ==
    [pc |-> "new", kind |-> "", username |-> Undefined, password |-> Undefined,
     user |-> Undefined, status |-> 0, error |-> "", message |-> "",
     token |-> Undefined]

Init ==
    /\ rooms = EmptyDirectory
    /\ sock = [s \in Sockets |-> NewSocket]
    /\ out = <<>>
    /\ last = [op |-> "init", s |-> 0, arg |-> Undefined]
    /\ listening = TRUE
    /\ now = 0
    /\ users = NoUsers
    /\ req = [q \in Requests |-> NewRequest]

Connected(sk) == {s \in Sockets : sk[s].status = "connected"}

(***************************************************************************)
(* The transport's broadcast groups (Socket.IO rooms).  sock[s].rooms is   *)
(* socket.rooms: the socket's own id plus the groups it joined.  A         *)
(* disconnected socket has left every group before its handler runs.       *)
(***************************************************************************)
InGroup(sk, r) == {t \in Connected(sk) : r \in sk[t].rooms}

\* a broadcast that reaches only the sockets that are in a room
IoEmitToRoomMembers(sk) == {s \in Connected(sk) : Truthy(sk[s].currentRoom)}

\* io.emit: every connected socket
IoEmit(sk) == Connected(sk)

\* io.to(r).emit: every connected socket in group r
IoTo(sk, r) == InGroup(sk, r)

\* socket.to(r).emit: a broadcast to group r whose except list is the group
\* named by the sender's id, so it skips every socket in that group
SocketTo(sk, s, r) == InGroup(sk, r) \ InGroup(sk, SocketId(s))

\* socket.emit: the socket itself
SocketEmit(s) == {s}

Emit(ev, to, data) == [ev |-> ev, to |-> to, data |-> data]

ErrorEvent(s, message, code) ==
    Emit("error", SocketEmit(s), [message |-> message, code |-> code])

\* what a handler hands back: the directory, the sockets and the events
Result(rm, sk, evs) == [rooms |-> rm, sock |-> sk, out |-> evs, threw |-> FALSE]

\* the handler threw before it changed or emitted anything
Thrown(rm, sk) == [rooms |-> rm, sock |-> sk, out |-> <<>>, threw |-> TRUE]

\* Map.prototype.set / Set.prototype.add / Set.prototype.delete on the directory
MapSet(rm, k, v) == [r \in DOMAIN rm \cup {k} |-> IF r = k THEN v ELSE rm[r]]
MapDelete(rm, k) == [r \in DOMAIN rm \ {k} |-> rm[r]]
\* the member set is started afresh with the one username
MembersReset(rm, k, u) == MapSet(rm, k, {u})
MembersAdd(rm, k, u) == MapSet(rm, k, rm[k] \cup {u})
MembersDelete(rm, k, u) == MapSet(rm, k, rm[k] \ {u})

(***************************************************************************)
(* get_rooms                                                               *)
(***************************************************************************)
\* a list that leaves out the rooms nobody is in
GetRoomsWithMembers(rm, sk, s) ==
    Result(rm, sk, <<Emit("rooms_list", SocketEmit(s),
                          [roomList |-> {r \in DOMAIN rm : rm[r] # {}}])>>)

GetRooms(rm, sk, s) ==
    Result(rm, sk, <<Emit("rooms_list", SocketEmit(s), [roomList |-> DOMAIN rm])>>)

(***************************************************************************)
(* create_room, payload {roomName}                                         *)
(***************************************************************************)
\* the limit taken one too low: a name of 50 characters is turned down
RoomNameLimitOneShort == 50 - 1

MaxRoomNameLength == 50

\* const { roomName } = data throws a TypeError when data is undefined
CreateRoom(rm, sk, s, roomName) ==
    IF roomName = NoPayload
    THEN Thrown(rm, sk)
    ELSE IF ~Truthy(roomName) \/ roomName.type # "string"
    THEN Result(rm, sk, <<ErrorEvent(s, "Invalid room name", "INVALID_ROOM_NAME")>>)
    ELSE LET trimmedName == Str(Trim(roomName.chars)) IN
         IF Len(trimmedName.chars) = 0
         THEN Result(rm, sk,
                     <<ErrorEvent(s, "Room name cannot be empty", "EMPTY_ROOM_NAME")>>)
         ELSE IF Len(trimmedName.chars) > MaxRoomNameLength
         THEN Result(rm, sk,
                     <<ErrorEvent(s, "Room name too long (max 50 characters)",
                                  "ROOM_NAME_TOO_LONG")>>)
         ELSE IF trimmedName \in DOMAIN rm
         THEN Result(rm, sk, <<ErrorEvent(s, "Room already exists", "ROOM_EXISTS")>>)
         ELSE Result(MapSet(rm, trimmedName, {}), sk,
                     <<Emit("room_created", IoEmit(sk),
                            [roomName |-> trimmedName, createdBy |-> sk[s].username]),
                       Emit("room_create_success", SocketEmit(s),
                            [roomName |-> trimmedName])>>)

(***************************************************************************)
(* join_room, payload {roomName}                                           *)
(***************************************************************************)
\* socket.leave(room) / socket.join(room) on the socket's groups
SocketLeave(sk, s, r) == [sk EXCEPT ![s].rooms = @ \ {r}]
SocketJoin(sk, s, r) == [sk EXCEPT ![s].rooms = @ \cup {r}]

\* the groups the forEach of join_room leaves: all but the socket's own id
PreviousRooms(sk, s) == {r \in sk[s].rooms : r # SocketId(s)}

\* the loop with a "delete empty rooms" step of its own: a room the switch
\* has emptied is taken out of the directory
LeavePreviousRoomsDeletingEmpty(rm, sk, s) ==
    LET left == PreviousRooms(sk, s)
        kept == {r \in DOMAIN rm : ~(r \in left /\ rm[r] \ {sk[s].username} = {})}
    IN
    [rooms |-> [r \in kept |->
                    IF r \in left THEN rm[r] \ {sk[s].username} ELSE rm[r]],
     sock |-> [sk EXCEPT ![s].rooms = @ \ left]]

\* Array.from(socket.rooms).forEach(...): leave each group, and, where the
\* directory has the room, delete the username from its member set
LeavePreviousRooms(rm, sk, s) ==
    LET left == PreviousRooms(sk, s) IN
    [rooms |-> [r \in DOMAIN rm |->
                    IF r \in left THEN rm[r] \ {sk[s].username} ELSE rm[r]],
     sock |-> [sk EXCEPT ![s].rooms = @ \ left]]

\* join_room with its steps 1 and 2 swapped: the previous rooms are left
\* before the room name is validated
JoinRoomLeavesFirst(rm, sk, s, roomName) ==
    LET prev == LeavePreviousRooms(rm, sk, s) IN
    IF roomName = NoPayload
    THEN Thrown(rm, sk)
    ELSE IF ~Truthy(roomName)
    THEN Result(prev.rooms, [prev.sock EXCEPT ![s].currentRoom = NoRoom],
                <<ErrorEvent(s, "Room name is required", "MISSING_ROOM_NAME")>>)
    ELSE LET sk1 == [SocketJoin(prev.sock, s, roomName) EXCEPT ![s].currentRoom = roomName]
             rm1 == IF roomName \in DOMAIN prev.rooms
                    THEN prev.rooms
                    ELSE MapSet(prev.rooms, roomName, {})
             rm2 == MembersAdd(rm1, roomName, sk[s].username)
             userCount == Cardinality(rm2[roomName])
         IN  Result(rm2, sk1,
                    <<Emit("user_joined", SocketTo(sk1, s, roomName),
                           [username |-> sk[s].username, roomName |-> roomName,
                            userCount |-> userCount]),
                      Emit("joined_room", SocketEmit(s),
                           [roomName |-> roomName, users |-> rm2[roomName],
                            userCount |-> userCount])>>)

\* const { roomName } = data throws a TypeError when data is undefined
JoinRoom(rm, sk, s, roomName) ==
    IF roomName = NoPayload
    THEN Thrown(rm, sk)
    ELSE IF ~Truthy(roomName)
    THEN Result(rm, sk, <<ErrorEvent(s, "Room name is required", "MISSING_ROOM_NAME")>>)
    ELSE LET prev == LeavePreviousRooms(rm, sk, s)
             sk1 == [SocketJoin(prev.sock, s, roomName) EXCEPT ![s].currentRoom = roomName]
             rm1 == IF roomName \in DOMAIN prev.rooms
                    THEN prev.rooms
                    ELSE MapSet(prev.rooms, roomName, {})
             rm2 == MembersAdd(rm1, roomName, sk[s].username)
             userCount == Cardinality(rm2[roomName])
         IN  Result(rm2, sk1,
                    <<Emit("user_joined", SocketTo(sk1, s, roomName),
                           [username |-> sk[s].username, roomName |-> roomName,
                            userCount |-> userCount]),
                      Emit("joined_room", SocketEmit(s),
                           [roomName |-> roomName, users |-> rm2[roomName],
                            userCount |-> userCount])>>)

(***************************************************************************)
(* leave_room                                                              *)
(***************************************************************************)
\* "Delete empty rooms": room_deleted goes to the room's members only
LeaveDeleteEmptyToRoomOnly(rm, sk, roomName) ==
    Result(MapDelete(rm, roomName), sk,
           <<Emit("room_deleted", IoTo(sk, roomName),
                  [roomName |-> roomName, reason |-> "empty"])>>)

\* "Delete empty rooms": rooms.delete(roomName), then io.emit('room_deleted')
LeaveDeleteEmpty(rm, sk, roomName) ==
    Result(MapDelete(rm, roomName), sk,
           <<Emit("room_deleted", IoEmit(sk),
                  [roomName |-> roomName, reason |-> "empty"])>>)

\* "Update tracking" with membership counted per connection: the username
\* stays while another connection of the same user has the room as current
LeaveTrackingPerConnection(rm, sk, s, roomName) ==
    LET shared == \E t \in Connected(sk) \ {s} :
                      /\ sk[t].username = sk[s].username
                      /\ sk[t].currentRoom = roomName
        rm1 == IF shared THEN rm ELSE MembersDelete(rm, roomName, sk[s].username)
        userCount == Cardinality(rm1[roomName])
        userLeft == Emit("user_left", SocketTo(sk, s, roomName),
                         [username |-> sk[s].username, roomName |-> roomName,
                          userCount |-> userCount])
    IN  IF userCount = 0
        THEN Result(MapDelete(rm1, roomName), sk,
                    <<userLeft, Emit("room_deleted", IoEmit(sk),
                                     [roomName |-> roomName, reason |-> "empty"])>>)
        ELSE Result(rm1, sk, <<userLeft>>)

\* "Update tracking": delete the username, tell the others, delete the room
\* when nobody is left
LeaveTracking(rm, sk, s, roomName) ==
    LET rm1 == MembersDelete(rm, roomName, sk[s].username)
        userCount == Cardinality(rm1[roomName])
        userLeft == Emit("user_left", SocketTo(sk, s, roomName),
                         [username |-> sk[s].username, roomName |-> roomName,
                          userCount |-> userCount])
        deleted == LeaveDeleteEmpty(rm1, sk, roomName)
    IN  IF userCount = 0
        THEN Result(deleted.rooms, sk, <<userLeft>> \o deleted.out)
        ELSE Result(rm1, sk, <<userLeft>>)

LeaveRoom(rm, sk, s) ==
    IF ~Truthy(sk[s].currentRoom)
    THEN Result(rm, sk, <<ErrorEvent(s, "You are not in any room", "NOT_IN_ROOM")>>)
    ELSE LET roomName == sk[s].currentRoom
             sk1 == SocketLeave(sk, s, roomName)
             tracked == IF roomName \in DOMAIN rm
                        THEN LeaveTracking(rm, sk1, s, roomName)
                        ELSE Result(rm, sk1, <<>>)
         IN  Result(tracked.rooms,
                    [sk1 EXCEPT ![s].currentRoom = NoRoom],
                    Append(tracked.out,
                           Emit("left_room", SocketEmit(s), [roomName |-> roomName])))

(***************************************************************************)
(* send_message, payload {text}                                            *)
(***************************************************************************)
\* the limit taken one too low: a text of 1000 characters is turned down
MessageLimitOneShort == 1000 - 1

MaxMessageLength == 1000

\* the message object (its generated id and timestamp left out)
Message(sk, s, text) ==
    [text |-> text, sender |-> sk[s].username, senderId |-> sk[s].userId,
     roomName |-> sk[s].currentRoom]

\* the broadcast leaves the sender out, as socket.to(...) does
BroadcastMessageToOthers(sk, s, text) ==
    Emit("new_message", SocketTo(sk, s, sk[s].currentRoom), Message(sk, s, text))

\* io.to(socket.currentRoom).emit('new_message', message)
BroadcastMessage(sk, s, text) ==
    Emit("new_message", IoTo(sk, sk[s].currentRoom), Message(sk, s, text))

\* the checks of the message come first, the check of the current room last
SendMessageContentFirst(rm, sk, s, dataText) ==
    IF dataText = NoPayload
    THEN Thrown(rm, sk)
    ELSE IF ~Truthy(dataText) \/ dataText.type # "string"
    THEN Result(rm, sk, <<ErrorEvent(s, "Invalid message", "INVALID_MESSAGE")>>)
    ELSE IF Len(Trim(dataText.chars)) = 0
    THEN Result(rm, sk, <<ErrorEvent(s, "Message cannot be empty", "EMPTY_MESSAGE")>>)
    ELSE IF Len(Trim(dataText.chars)) > MaxMessageLength
    THEN Result(rm, sk,
                <<ErrorEvent(s, "Message too long (max 1000 characters)",
                             "MESSAGE_TOO_LONG")>>)
    ELSE IF ~Truthy(sk[s].currentRoom)
    THEN Result(rm, sk, <<ErrorEvent(s, "You must join a room first", "NOT_IN_ROOM")>>)
    ELSE Result(rm, sk, <<BroadcastMessage(sk, s, Str(Trim(dataText.chars)))>>)

\* data.text throws a TypeError when data is undefined; the handler reads it
\* only after the check of the current room
SendMessage(rm, sk, s, dataText) ==
    IF ~Truthy(sk[s].currentRoom)
    THEN Result(rm, sk, <<ErrorEvent(s, "You must join a room first", "NOT_IN_ROOM")>>)
    ELSE IF dataText = NoPayload
    THEN Thrown(rm, sk)
    ELSE IF ~Truthy(dataText) \/ dataText.type # "string"
    THEN Result(rm, sk, <<ErrorEvent(s, "Invalid message", "INVALID_MESSAGE")>>)
    ELSE LET text == Str(Trim(dataText.chars)) IN
         IF Len(text.chars) = 0
         THEN Result(rm, sk, <<ErrorEvent(s, "Message cannot be empty", "EMPTY_MESSAGE")>>)
         ELSE IF Len(text.chars) > MaxMessageLength
         THEN Result(rm, sk,
                     <<ErrorEvent(s, "Message too long (max 1000 characters)",
                                  "MESSAGE_TOO_LONG")>>)
         ELSE Result(rm, sk, <<BroadcastMessage(sk, s, text)>>)

(***************************************************************************)
(* typing / stop_typing                                                    *)
(***************************************************************************)
Typing(rm, sk, s) ==
    IF Truthy(sk[s].currentRoom)
    THEN Result(rm, sk,
                <<Emit("user_typing", SocketTo(sk, s, sk[s].currentRoom),
                       [username |-> sk[s].username, roomName |-> sk[s].currentRoom])>>)
    ELSE Result(rm, sk, <<>>)

StopTyping(rm, sk, s) ==
    IF Truthy(sk[s].currentRoom)
    THEN Result(rm, sk,
                <<Emit("user_stop_typing", SocketTo(sk, s, sk[s].currentRoom),
                       [username |-> sk[s].username, roomName |-> sk[s].currentRoom])>>)
    ELSE Result(rm, sk, <<>>)

(***************************************************************************)
(* disconnect: the transport takes the socket out of every group and marks *)
(* it disconnected, then the controller's handler runs.                    *)
(***************************************************************************)
SocketClose(sk, s) == [sk EXCEPT ![s].status = "disconnected", ![s].rooms = {}]

\* once its disconnect handlers have returned nothing refers to the socket
\* object any more: its fields are dead and are dropped with it
SocketRelease(sk, s) == [sk EXCEPT ![s] = [NewSocket EXCEPT !.status = "disconnected"]]

\* the handler's own copy of "Delete empty rooms"
DisconnectDeleteEmpty(rm, sk, roomName) ==
    Result(MapDelete(rm, roomName), sk,
           <<Emit("room_deleted", IoEmit(sk),
                  [roomName |-> roomName, reason |-> "empty"])>>)

Disconnect(rm, sk, s) ==
    IF Truthy(sk[s].currentRoom) /\ sk[s].currentRoom \in DOMAIN rm
    THEN LET roomName == sk[s].currentRoom
             rm1 == MembersDelete(rm, roomName, sk[s].username)
             userCount == Cardinality(rm1[roomName])
             userLeft == Emit("user_left", SocketTo(sk, s, roomName),
                              [username |-> sk[s].username, roomName |-> roomName,
                               userCount |-> userCount])
             deleted == DisconnectDeleteEmpty(rm1, sk, roomName)
         IN  IF userCount = 0
             THEN Result(deleted.rooms, sk, <<userLeft>> \o deleted.out)
             ELSE Result(rm1, sk, <<userLeft>>)
    ELSE Result(rm, sk, <<>>)

(***************************************************************************)
(* Admission: io.use(authenticateSocket), then io.on('connection').        *)
(***************************************************************************)
\* jwt.verify's throw, as the catch block of authenticateSocket words it
AuthErrorMessage(decoded) ==
    IF decoded.error = "TokenExpiredError" THEN "Token expired"
    ELSE IF decoded.error = "JsonWebTokenError" THEN "Invalid token"
    ELSE decoded.message

\* the error is logged and the connection let through all the same
RefuseButConnect(rm, sk, s, reason) ==
    Result(rm,
           [sk EXCEPT ![s].status = "connected", ![s].rooms = {SocketId(s)}],
           <<>>)

\* next(new Error(message)): the attempt is refused, the client is sent
\* connect_error with that message, and no connection event fires
Refuse(rm, sk, s, reason) ==
    Result(rm, [sk EXCEPT ![s].status = "refused"],
           <<Emit("connect_error", SocketEmit(s),
                  [message |-> <<"Authentication error: ", reason>>])>>)

\* next(): the socket joins the group of its own id and is connected
\* the connection is let in without the decoded identity being attached
AdmitWithoutIdentity(rm, sk, s, decoded) ==
    Result(rm,
           [sk EXCEPT ![s].status = "connected",
                      ![s].rooms = {SocketId(s)}],
           <<>>)

Admit(rm, sk, s, decoded) ==
    Result(rm,
           [sk EXCEPT ![s].status = "connected",
                      ![s].userId = decoded.userId,
                      ![s].username = decoded.username,
                      ![s].rooms = {SocketId(s)}],
           <<>>)

\* the middleware without its check for a missing token: the verifier is
\* called on whatever the handshake holds
AuthenticateSocketVerifyAlways(rm, sk, s, token, t) ==
    LET decoded == JwtVerify(token, t) IN
    IF decoded.ok
    THEN Admit(rm, sk, s, decoded)
    ELSE Refuse(rm, sk, s, AuthErrorMessage(decoded))

AuthenticateSocket(rm, sk, s, token, t) ==
    IF token.kind = "none"
    THEN Refuse(rm, sk, s, "No token provided")
    ELSE LET decoded == JwtVerify(token, t) IN
         IF decoded.ok
         THEN Admit(rm, sk, s, decoded)
         ELSE Refuse(rm, sk, s, AuthErrorMessage(decoded))

(***************************************************************************)
(* Payloads the clients send.                                              *)
(***************************************************************************)
\* the one socket id that clients use as a room name
LeakedId == SocketId(1)

CreateInputs ==
    {NoPayload, Num, Str(<<" ">>), Str(<<" ", "a", " ">>), LeakedId}

JoinInputs ==
    {NoPayload, Undefined, Str(<<"a">>), Str(<<" ", "a">>), LeakedId}

TextInputs ==
    {NoPayload, Undefined, Str(<<" ", "h", "i">>)}

(***************************************************************************)
(* Actions: one per event.  Apply installs a handler's result.             *)
(***************************************************************************)
\* shutdown(): io.close() closes every connection and the HTTP server, then
\* the process exits and the directory is gone with it
Shutdown(sk) ==
    [t \in Sockets |->
        IF sk[t].status = "connected"
        THEN [NewSocket EXCEPT !.status = "disconnected"]
        ELSE sk[t]]

\* process.on('uncaughtException'): the handler of event op threw
UncaughtException(op, s) ==
    /\ rooms' = EmptyDirectory
    /\ sock' = Shutdown(sock)
    /\ out' = <<>>
    /\ last' = [op |-> "uncaughtException", s |-> s, arg |-> Str(<<op>>)]
    /\ listening' = FALSE
    /\ now' = now
    /\ users' = NoUsers
    /\ req' = req

Apply(op, s, arg, res) ==
    IF res.threw
    THEN UncaughtException(op, s)
    ELSE /\ rooms' = res.rooms
         /\ sock' = res.sock
         /\ out' = res.out
         /\ last' = [op |-> op, s |-> s, arg |-> arg]
         /\ UNCHANGED <<listening, now, users, req>>

\* connection attempts are numbered in their order of arrival, and users are
\* named in the order they first get in (the first one admitted is "alice")
Connect(s, token) ==
    /\ listening
    /\ sock[s].status = "new"
    /\ \A t \in Sockets : t < s => sock[t].status # "new"
    /\ token = ValidToken("bob") =>
           \E t \in Sockets : sock[t].status \in {"connected", "disconnected"}
    /\ Apply("connect", s, token, AuthenticateSocket(rooms, sock, s, token, now))

OnGetRooms(s) ==
    /\ sock[s].status = "connected"
    /\ Apply("get_rooms", s, Undefined, GetRooms(rooms, sock, s))

OnCreateRoom(s, roomName) ==
    /\ sock[s].status = "connected"
    /\ Apply("create_room", s, roomName, CreateRoom(rooms, sock, s, roomName))

OnJoinRoom(s, roomName) ==
    /\ sock[s].status = "connected"
    /\ Apply("join_room", s, roomName, JoinRoom(rooms, sock, s, roomName))

OnLeaveRoom(s) ==
    /\ sock[s].status = "connected"
    /\ Apply("leave_room", s, Undefined, LeaveRoom(rooms, sock, s))

OnSendMessage(s, text) ==
    /\ sock[s].status = "connected"
    /\ Apply("send_message", s, text, SendMessage(rooms, sock, s, text))

OnTyping(s) ==
    /\ sock[s].status = "connected"
    /\ Apply("typing", s, Undefined, Typing(rooms, sock, s))

OnStopTyping(s) ==
    /\ sock[s].status = "connected"
    /\ Apply("stop_typing", s, Undefined, StopTyping(rooms, sock, s))

OnDisconnect(s) ==
    /\ sock[s].status = "connected"
    /\ LET done == Disconnect(rooms, SocketClose(sock, s), s) IN
       Apply("disconnect", s, Undefined,
             Result(done.rooms, SocketRelease(done.sock, s), done.out))

Next ==
    \/ \E s \in Sockets, token \in Tokens : Connect(s, token)
    \/ \E s \in Sockets : OnGetRooms(s)
    \/ \E s \in Sockets, roomName \in CreateInputs : OnCreateRoom(s, roomName)
    \/ \E s \in Sockets, roomName \in JoinInputs : OnJoinRoom(s, roomName)
    \/ \E s \in Sockets : OnLeaveRoom(s)
    \/ \E s \in Sockets, text \in TextInputs : OnSendMessage(s, text)
    \/ \E s \in Sockets : OnTyping(s)
    \/ \E s \in Sockets : OnStopTyping(s)
    \/ \E s \in Sockets : OnDisconnect(s)

Spec == Init /\ [][Next]_vars

(***************************************************************************)
(* The sessions across the expiry of their tokens.  The clock passes the   *)
(* exp of the tokens issued so far; no timer of the server looks at a      *)
(* token again, so nothing else moves.                                     *)
(***************************************************************************)
\* the server drops every session whose token has expired
TokensExpireAndSessionsDrop ==
    /\ listening
    /\ now = 0
    /\ now' = 1
    /\ sock' = Shutdown(sock)
    /\ out' = <<>>
    /\ last' = [op |-> "expiry", s |-> 0, arg |-> Undefined]
    /\ UNCHANGED <<rooms, listening, users, req>>

TokensExpire ==
    /\ listening
    /\ now = 0
    /\ now' = 1
    /\ out' = <<>>
    /\ last' = [op |-> "expiry", s |-> 0, arg |-> Undefined]
    /\ UNCHANGED <<rooms, sock, listening, users, req>>

ExpiryTokens == {ValidToken(u) : u \in Users}

ExpiryJoinInputs == {Undefined, Str(<<"a">>), Str(<<"b">>)}

ExpiryTextInputs == {Str(<<" ">>), Str(<<"h", "i">>)}

NextExpiry ==
    \/ TokensExpire
    \/ \E s \in Sockets, token \in ExpiryTokens : Connect(s, token)
    \/ \E s \in Sockets, roomName \in ExpiryJoinInputs : OnJoinRoom(s, roomName)
    \/ \E s \in Sockets : OnLeaveRoom(s)
    \/ \E s \in Sockets, text \in ExpiryTextInputs : OnSendMessage(s, text)
    \/ \E s \in Sockets : OnDisconnect(s)

SpecExpiry == Init /\ [][NextExpiry]_vars

(***************************************************************************)
(* The sessions of admitted users under payloads of every shape: one for   *)
(* each check of each handler, passing or failing it.                      *)
(***************************************************************************)
\* a room name of MaxRoomNameLength + 1 characters
LongName == Str([i \in 1..(MaxRoomNameLength + 1) |-> "x"])

\* a text of MaxMessageLength + 1 characters
LongText == Str([i \in 1..(MaxMessageLength + 1) |-> "x"])

PayloadTokens == {ValidToken(u) : u \in Users}

PayloadCreateInputs ==
    {NoPayload, Undefined, Null, Num, Str(<<>>), Str(<<" ">>), LongName,
     Str(<<"a">>), Str(<<" ", "a", " ">>)}

PayloadJoinInputs ==
    {NoPayload, Undefined, Null, Str(<<>>), Str(<<"a">>), Str(<<" ", "a">>)}

PayloadTextInputs ==
    {NoPayload, Undefined, Null, Num, Str(<<>>), Str(<<" ">>), LongText,
     Str(<<" ", "h", "i">>)}

NextPayloads ==
    \/ \E s \in Sockets, token \in PayloadTokens : Connect(s, token)
    \/ \E s \in Sockets, roomName \in PayloadCreateInputs : OnCreateRoom(s, roomName)
    \/ \E s \in Sockets, roomName \in PayloadJoinInputs : OnJoinRoom(s, roomName)
    \/ \E s \in Sockets : OnLeaveRoom(s)
    \/ \E s \in Sockets, text \in PayloadTextInputs : OnSendMessage(s, text)
    \/ \E s \in Sockets : OnDisconnect(s)

SpecPayloads == Init /\ [][NextPayloads]_vars

(***************************************************************************)
(* Vocabulary of the properties.                                           *)
(***************************************************************************)
\* the connections whose current room is r
InRoom(sk, r) == {t \in Connected(sk) : sk[t].currentRoom = r}

\* the positions of the events named ev among the events evs
EventsNamed(evs, ev) == {i \in 1..Len(evs) : evs[i].ev = ev}

\* the handler that just ran was op, for socket s
Handled(op, s) == last.op = op /\ last.s = s

(***************************************************************************)
(* C1  No room of the directory has an empty member set at the end of a    *)
(* handler.                                                                *)
(***************************************************************************)
C1_NoDanglingEmptyRoom == \A r \in DOMAIN rooms : rooms[r] # {}

(***************************************************************************)
(* C2  Consistency: a room's member set is exactly the usernames of the    *)
(* live connections whose currentRoom is that room, and a live             *)
(* connection's currentRoom names a room of the directory that holds its   *)
(* username.                                                               *)
(***************************************************************************)
C2_Consistency ==
    /\ \A r \in DOMAIN rooms : rooms[r] = {sock[t].username : t \in InRoom(sock, r)}
    /\ \A s \in Connected(sock) :
          Truthy(sock[s].currentRoom) =>
              /\ sock[s].currentRoom \in DOMAIN rooms
              /\ sock[s].username \in rooms[sock[s].currentRoom]

(***************************************************************************)
(* C3  Room isolation: a new_message sent from room A reaches no           *)
(* connection whose current room is another room, or that has none.        *)
(***************************************************************************)
C3_RoomIsolation ==
    \A i \in EventsNamed(out, "new_message") :
        \A t \in out[i].to : sock[t].currentRoom = out[i].data.roomName

(***************************************************************************)
(* C4  Exclusivity: a live connection is in the broadcast group of at most *)
(* one room of the directory, and after a join_room it is a member of no   *)
(* room but the one it joined.                                             *)
(***************************************************************************)
C4_Exclusivity ==
    \A s \in Connected(sock) :
        /\ Cardinality({r \in DOMAIN rooms : r \in sock[s].rooms}) <= 1
        /\ (Handled("join_room", s) /\ Truthy(last.arg)) =>
               {r \in DOMAIN rooms : r \in sock[s].rooms} = {sock[s].currentRoom}

(***************************************************************************)
(* C5  When leave_room takes the last member out of a room, the room is    *)
(* gone from the directory when the handler ends and room_deleted          *)
(* {roomName, reason: "empty"} goes to every connected session; a          *)
(* rooms_list reply is exactly the directory, and a name enters the        *)
(* directory only by create_room or join_room, so the name stays out of    *)
(* every later reply until it is created again.                            *)
(***************************************************************************)
\* socket s is in a room of the directory in which no other username is left
LastMember(s) ==
    /\ s \in Connected(sock)
    /\ Truthy(sock[s].currentRoom)
    /\ sock[s].currentRoom \in DOMAIN rooms
    /\ rooms[sock[s].currentRoom] \ {sock[s].username} = {}

C5_LastLeaveDeletesRoom ==
    [][/\ \A s \in Sockets :
              (LastMember(s) /\ Handled("leave_room", s)') =>
                  /\ sock[s].currentRoom \notin DOMAIN rooms'
                  /\ \E i \in EventsNamed(out', "room_deleted") :
                        /\ out'[i].to = Connected(sock')
                        /\ out'[i].data =
                               [roomName |-> sock[s].currentRoom, reason |-> "empty"]
       /\ (last'.op = "get_rooms") =>
              /\ Len(out') = 1
              /\ out'[1].ev = "rooms_list"
              /\ out'[1].to = {last'.s}
              /\ out'[1].data.roomList = DOMAIN rooms'
       /\ (DOMAIN rooms' \ DOMAIN rooms # {}) =>
              last'.op \in {"create_room", "join_room"}
      ]_vars

C5_Witness ==
    /\ last.op = "leave_room"
    /\ \E i \in EventsNamed(out, "room_deleted") :
          /\ out[i].data.roomName \notin DOMAIN rooms
          /\ Cardinality(out[i].to) >= 2

(***************************************************************************)
(* C6  When the sole member of room A joins another room B, A is deleted   *)
(* from the directory and room_deleted{roomName: A, reason: "empty"} goes  *)
(* to all connections before the connection becomes a member of B.         *)
(***************************************************************************)
\* socket s, in a room of the directory, asks to join another room
Switching(s) ==
    /\ s \in Connected(sock)
    /\ Truthy(sock[s].currentRoom)
    /\ sock[s].currentRoom \in DOMAIN rooms
    /\ Handled("join_room", s)'
    /\ Truthy(last'.arg)
    /\ last'.arg # sock[s].currentRoom

C6_SwitchDeletesEmptiedRoom ==
    [][\A s \in Sockets :
          (Switching(s) /\ rooms[sock[s].currentRoom] = {sock[s].username}) =>
              /\ sock[s].currentRoom \notin DOMAIN rooms'
              /\ \E i \in EventsNamed(out', "room_deleted") :
                    /\ out'[i].to = Connected(sock')
                    /\ out'[i].data =
                           [roomName |-> sock[s].currentRoom, reason |-> "empty"]
                    /\ \A j \in EventsNamed(out', "joined_room") : i < j
      ]_vars

(***************************************************************************)
(* C7  When a connection leaves room A, which has other members, by        *)
(* joining another room B, every remaining member of A gets user_left      *)
(* {username, roomName: A, userCount} with userCount the number of         *)
(* members left in A.                                                      *)
(***************************************************************************)
C7_SwitchNotifiesOldRoom ==
    [][\A s \in Sockets :
          (Switching(s) /\ rooms[sock[s].currentRoom] \ {sock[s].username} # {}) =>
              \E i \in EventsNamed(out', "user_left") :
                  /\ InRoom(sock, sock[s].currentRoom) \ {s} \subseteq out'[i].to
                  /\ out'[i].data =
                         [username |-> sock[s].username,
                          roomName |-> sock[s].currentRoom,
                          userCount |->
                              Cardinality(rooms[sock[s].currentRoom]
                                              \ {sock[s].username})]
      ]_vars

(***************************************************************************)
(* C8  Idempotent disconnect: the disconnect cleanup run a second time for *)
(* a connection whose cleanup already ran changes no state and emits no    *)
(* event.                                                                  *)
(***************************************************************************)
C8_DisconnectIdempotent ==
    \A s \in Connected(sock) :
        LET first == Disconnect(rooms, SocketClose(sock, s), s)
            second == Disconnect(first.rooms, first.sock, s)
        IN  /\ second.out = <<>>
            /\ second.rooms = first.rooms
            /\ second.sock = first.sock

(***************************************************************************)
(* C9  Disconnect of a connection in room r does what leave_room does: its *)
(* username leaves r's member set, every remaining member gets user_left   *)
(* with userCount the number of members left, r is deleted and             *)
(* room_deleted goes to all if r became empty; nothing is sent to the      *)
(* disconnected connection; a disconnect with no current room changes      *)
(* nothing and emits nothing.                                              *)
(***************************************************************************)
\* the directory rm2 is rm with username u taken out of room r, and r
\* deleted if that emptied it
LeftDirectory(rm, rm2, r, u) ==
    /\ DOMAIN rm2 = IF rm[r] \ {u} = {} THEN DOMAIN rm \ {r} ELSE DOMAIN rm
    /\ \A q \in DOMAIN rm2 : rm2[q] = IF q = r THEN rm[r] \ {u} ELSE rm[q]

C9_DisconnectLeaves ==
    [][\A s \in Connected(sock) :
          Handled("disconnect", s)' =>
              LET r == sock[s].currentRoom
                  u == sock[s].username
              IN  /\ \A i \in 1..Len(out') : s \notin out'[i].to
                  /\ \A t \in Sockets \ {s} : sock'[t] = sock[t]
                  /\ IF Truthy(r) /\ r \in DOMAIN rooms
                     THEN /\ LeftDirectory(rooms, rooms', r, u)
                          /\ Len(out') = IF rooms[r] \ {u} = {} THEN 2 ELSE 1
                          /\ out'[1].ev = "user_left"
                          /\ InRoom(sock, r) \ {s} \subseteq out'[1].to
                          /\ out'[1].data =
                                 [username |-> u, roomName |-> r,
                                  userCount |-> Cardinality(rooms[r] \ {u})]
                          /\ (rooms[r] \ {u} = {}) =>
                                 out'[2] = Emit("room_deleted", Connected(sock'),
                                                [roomName |-> r, reason |-> "empty"])
                     ELSE /\ rooms' = rooms
                          /\ out' = <<>>
      ]_vars

C9_Witness ==
    /\ last.op = "disconnect"
    /\ \E i \in EventsNamed(out, "user_left") :
          /\ out[i].to # {}
          /\ out[i].data.roomName \in DOMAIN rooms
          /\ out[i].data.userCount = Cardinality(rooms[out[i].data.roomName])

(***************************************************************************)
(* C10  A successful send_message from a connection whose current room is  *)
(* r delivers exactly one new_message to every live connection whose       *)
(* current room is r, the sender included, and all of them get the same    *)
(* message.                                                                *)
(***************************************************************************)
\* socket s sends a text that passes the checks of send_message
SendsValid(s) ==
    /\ s \in Connected(sock)
    /\ Truthy(sock[s].currentRoom)
    /\ Handled("send_message", s)'
    /\ last'.arg.type = "string"
    /\ Trim(last'.arg.chars) # <<>>
    /\ Len(Trim(last'.arg.chars)) <= MaxMessageLength

C10_MessageReachesRoom ==
    [][\A s \in Sockets :
          SendsValid(s) =>
              /\ Cardinality(EventsNamed(out', "new_message")) = 1
              /\ \A i \in EventsNamed(out', "new_message") :
                    /\ InRoom(sock, sock[s].currentRoom) \subseteq out'[i].to
                    /\ s \in out'[i].to
                    /\ out'[i].data.roomName = sock[s].currentRoom
                    /\ out'[i].data.sender = sock[s].username
                    /\ out'[i].data.text = Str(Trim(last'.arg.chars))
      ]_vars

C10_Witness ==
    /\ last.op = "send_message"
    /\ \E i \in EventsNamed(out, "new_message") :
          /\ last.s \in out[i].to
          /\ Cardinality(InRoom(sock, out[i].data.roomName)) >= 2
          /\ InRoom(sock, out[i].data.roomName) \subseteq out[i].to

(***************************************************************************)
(* C11  Message gating: a send_message from a connection with no current   *)
(* room (one that never joined, or that left by leave_room) emits no       *)
(* new_message; the sender alone gets the one error NOT_IN_ROOM, whatever  *)
(* the payload is (missing, not a string, blank, too long or valid), and   *)
(* nothing changes.                                                        *)
(***************************************************************************)
\* payloads that pass or fail each of the checks of the message
GatingTexts == TextInputs \cup PayloadTextInputs

C11_MessageGating ==
    /\ \A s \in Connected(sock) :
          ~Truthy(sock[s].currentRoom) =>
              \A text \in GatingTexts :
                  LET res == SendMessage(rooms, sock, s, text) IN
                  /\ ~res.threw
                  /\ res.out = <<ErrorEvent(s, "You must join a room first",
                                            "NOT_IN_ROOM")>>
                  /\ res.rooms = rooms
                  /\ res.sock = sock
    /\ \A s \in Connected(sock) :
          (Handled("connect", s) \/ Handled("leave_room", s)) =>
              ~Truthy(sock[s].currentRoom)

C11_Witness ==
    /\ last.op = "send_message"
    /\ last.arg = Undefined
    /\ last.s \in Connected(sock)
    /\ out = <<ErrorEvent(last.s, "You must join a room first", "NOT_IN_ROOM")>>

(***************************************************************************)
(* C12  Atomic membership transitions: whatever the order in which the     *)
(* members of a room leave it by leave_room or disconnect, the room is     *)
(* deleted exactly once: a handler emits one room_deleted for a room       *)
(* exactly when it takes the room out of the directory, and once the last  *)
(* connection in the room has left or disconnected the room is out of the  *)
(* directory.                                                              *)
(***************************************************************************)
\* the room_deleted events among evs that name room r
DeletionsOf(evs, r) == {i \in EventsNamed(evs, "room_deleted") : evs[i].data.roomName = r}

C12_DeletedExactlyOnce ==
    [][/\ \A s \in Connected(sock) :
              LET r == sock[s].currentRoom IN
              (/\ Handled("leave_room", s)' \/ Handled("disconnect", s)'
               /\ Truthy(r)
               /\ r \in DOMAIN rooms) =>
                  /\ Cardinality(DeletionsOf(out', r)) =
                         IF r \in DOMAIN rooms' THEN 0 ELSE 1
                  /\ (InRoom(sock', r) = {}) => r \notin DOMAIN rooms'
       /\ \A i \in EventsNamed(out', "room_deleted") :
              /\ out'[i].data.roomName \in DOMAIN rooms
              /\ out'[i].data.roomName \notin DOMAIN rooms'
      ]_vars

(***************************************************************************)
(* C13  Two live connections share a username and are both in room r: a    *)
(* leave_room or a disconnect by one of them takes the shared username out *)
(* of r's member set, deleting r with room_deleted to all when no other    *)
(* username is left, while the other connection keeps currentRoom = r and  *)
(* stays in r's broadcast group.                                           *)
(***************************************************************************)
\* connections s and t of one user, both in room r of the directory
SharedIn(s, t, r) ==
    /\ s # t
    /\ sock[s].username = sock[t].username
    /\ sock[s].currentRoom = r
    /\ sock[t].currentRoom = r
    /\ r \in sock[t].rooms
    /\ r \in DOMAIN rooms

\* res is the outcome of s leaving r: the username is evicted, t stays
Evicted(res, s, t, r) ==
    LET others == rooms[r] \ {sock[s].username} IN
    /\ IF others = {}
       THEN /\ r \notin DOMAIN res.rooms
            /\ \E i \in DeletionsOf(res.out, r) :
                  /\ res.out[i].to = Connected(res.sock)
                  /\ res.out[i].data.reason = "empty"
       ELSE /\ r \in DOMAIN res.rooms
            /\ res.rooms[r] = others
    /\ res.sock[t].status = "connected"
    /\ res.sock[t].currentRoom = r
    /\ r \in res.sock[t].rooms

C13_SharedUsernameEviction ==
    \A s \in Connected(sock), t \in Connected(sock) :
        \A r \in DOMAIN rooms :
            SharedIn(s, t, r) =>
                /\ Evicted(LeaveRoom(rooms, sock, s), s, t, r)
                /\ Evicted(Disconnect(rooms, SocketClose(sock, s), s), s, t, r)

C13_Witness ==
    /\ last.op = "leave_room"
    /\ \E t \in Connected(sock) \ {last.s} :
          /\ sock[t].username = sock[last.s].username
          /\ Truthy(sock[t].currentRoom)
          /\ sock[t].currentRoom \in sock[t].rooms
          /\ sock[t].currentRoom \notin DOMAIN rooms
          /\ DeletionsOf(out, sock[t].currentRoom) # {}

(***************************************************************************)
(* C14  Admission gating: a connection attempt whose token is missing,     *)
(* expired or invalid is refused: the attempt gets no identity, joins no   *)
(* group, the directory and the other connections are untouched, and from  *)
(* then on no handler ever runs for it and nothing about it changes.       *)
(***************************************************************************)
C14_AdmissionGating ==
    [][\A s \in Sockets :
          /\ (Handled("connect", s)' /\ last'.arg.kind # "valid") =>
                 /\ sock' = [sock EXCEPT ![s] = [NewSocket EXCEPT !.status = "refused"]]
                 /\ rooms' = rooms
                 /\ \A i \in 1..Len(out') : out'[i].to = {s}
          /\ (sock[s].status = "refused") =>
                 /\ sock'[s] = sock[s]
                 /\ last'.s # s
                 /\ \A i \in 1..Len(out') : s \notin out'[i].to
      ]_vars

C14_Witness ==
    /\ \E s \in Sockets : sock[s].status = "refused"
    /\ last.op = "send_message"
    /\ EventsNamed(out, "new_message") # {}

(***************************************************************************)
(* C15  Admission failure classification: every attempt has exactly one    *)
(* outcome.  A token that verifies is admitted, with no event.  Any other  *)
(* attempt is refused with one connect_error to the client, whose reason   *)
(* is "No token provided" for an absent token (the verifier's own words    *)
(* for it never show), "Token expired" for an expired token, "Invalid      *)
(* token" for a malformed or tampered one, and the verifier's message for  *)
(* any other failure.                                                      *)
(***************************************************************************)
\* the one refusal of the attempt of socket s, with its reason
RefusedAs(s, reason) ==
    /\ sock[s].status = "refused"
    /\ out = <<Emit("connect_error", {s},
                    [message |-> <<"Authentication error: ", reason>>])>>

C16_CheckedOnceAtAdmission ==
    [][/\ (now' # now) => (sock' = sock /\ rooms' = rooms)
       /\ \A s \in Connected(sock) :
              /\ (listening' /\ ~Handled("disconnect", s)') =>
                     /\ s \in Connected(sock')
                     /\ sock'[s].username = sock[s].username
                     /\ sock'[s].userId = sock[s].userId
              /\ (now = 1 /\ Handled("join_room", s)' /\ Truthy(last'.arg)) =>
                     /\ sock'[s].currentRoom = last'.arg
                     /\ sock[s].username \in rooms'[last'.arg]
                     /\ \E i \in EventsNamed(out', "joined_room") : out'[i].to = {s}
              /\ (now = 1 /\ SendsValid(s)) =>
                     \E i \in EventsNamed(out', "new_message") : s \in out'[i].to
       /\ \A s \in Sockets :
              (now = 1 /\ Handled("connect", s)') =>
                  /\ sock'[s].status = "refused"
                  /\ out'[1].data.message = <<"Authentication error: ", "Token expired">>
      ]_vars

C16_Witness ==
    /\ now = 1
    /\ \E t \in Sockets : sock[t].status = "refused"
    /\ last.op = "send_message"
    /\ \E i \in EventsNamed(out, "new_message") :
          /\ last.s \in out[i].to
          /\ out[i].data.sender = sock[last.s].username

(***************************************************************************)
(* C17  Validation and state errors are non-mutating: whenever             *)
(* create_room, join_room, leave_room or send_message answers with an      *)
(* error event, the directory, every member set, every connection's        *)
(* currentRoom and every broadcast group are as they were before the       *)
(* event; join_room failing with MISSING_ROOM_NAME does not leave the      *)
(* current room.                                                           *)
(***************************************************************************)
\* payloads for every check of create_room and join_room, the names of the
\* rooms that exist among them
NameInputs ==
    CreateInputs \cup JoinInputs \cup PayloadCreateInputs \cup PayloadJoinInputs
        \cup DOMAIN rooms

\* the handler's outcome res is no error, or an error that changed nothing
ErrorKeepsState(res) ==
    (EventsNamed(res.out, "error") # {}) =>
        /\ ~res.threw
        /\ res.rooms = rooms
        /\ res.sock = sock

C17_ErrorsDoNotMutate ==
    \A s \in Connected(sock) :
        /\ \A roomName \in NameInputs :
              /\ ErrorKeepsState(CreateRoom(rooms, sock, s, roomName))
              /\ ErrorKeepsState(JoinRoom(rooms, sock, s, roomName))
        /\ ErrorKeepsState(LeaveRoom(rooms, sock, s))
        /\ \A text \in GatingTexts :
              ErrorKeepsState(SendMessage(rooms, sock, s, text))

C17_Witness ==
    /\ last.op = "join_room"
    /\ out = <<ErrorEvent(last.s, "Room name is required", "MISSING_ROOM_NAME")>>
    /\ Truthy(sock[last.s].currentRoom)
    /\ sock[last.s].currentRoom \in sock[last.s].rooms
    /\ sock[last.s].currentRoom \in DOMAIN rooms
    /\ sock[last.s].username \in rooms[sock[last.s].currentRoom]

(***************************************************************************)
(* C18  Every validation or state failure (a payload that is missing,      *)
(* malformed or oversized, a room that exists already, an operation that   *)
(* needs a current room without one) is answered with a single error event *)
(* to the originating connection only: nobody else is sent anything, the   *)
(* connection stays open and the server keeps serving it.                  *)
(***************************************************************************)
\* roomName passes the checks of create_room against directory rm
CreatableName(rm, roomName) ==
    /\ roomName.type = "string"
    /\ Trim(roomName.chars) # <<>>
    /\ Len(Trim(roomName.chars)) <= MaxRoomNameLength
    /\ Str(Trim(roomName.chars)) \notin DOMAIN rm

\* text passes the checks of send_message
SendableText(text) ==
    /\ text.type = "string"
    /\ Trim(text.chars) # <<>>
    /\ Len(Trim(text.chars)) <= MaxMessageLength

\* the step is the event of socket s failing validation or lacking a room
Fails(s) ==
    /\ last'.s = s
    /\ \/ last'.op = "uncaughtException"
       \/ last'.op = "create_room" /\ ~CreatableName(rooms, last'.arg)
       \/ last'.op = "join_room" /\ ~Truthy(last'.arg)
       \/ last'.op = "leave_room" /\ ~Truthy(sock[s].currentRoom)
       \/ last'.op = "send_message"
             /\ (~Truthy(sock[s].currentRoom) \/ ~SendableText(last'.arg))

C18_ErrorToOriginatorOnly ==
    [][\A s \in Connected(sock) :
          Fails(s) =>
              /\ Len(out') = 1
              /\ out'[1].ev = "error"
              /\ out'[1].to = {s}
              /\ s \in Connected(sock')
              /\ listening'
      ]_vars

\* the same for the failures the handlers detect themselves
C18_DetectedFailures ==
    [][\A s \in Connected(sock) :
          (Fails(s) /\ last'.op # "uncaughtException") =>
              /\ Len(out') = 1
              /\ out'[1].ev = "error"
              /\ out'[1].to = {s}
              /\ s \in Connected(sock')
              /\ listening'
      ]_vars

(***************************************************************************)
(* C19  Fault isolation: whatever a client sends, create_room, join_room   *)
(* or send_message without any payload object included, the handler ends   *)
(* without an uncaught exception and reports the problem as an error event *)
(* to the sender (MISSING_ROOM_NAME for join_room without a name), the     *)
(* directory is as it was, and the server keeps serving the others.        *)
(***************************************************************************)
C19_FaultIsolation ==
    [][/\ listening => listening'
       /\ last'.op # "uncaughtException"
       /\ \A s \in Connected(sock) :
              (last'.s = s /\ last'.op \in {"create_room", "join_room", "send_message"}
                          /\ last'.arg = NoPayload) =>
                  /\ Len(out') = 1
                  /\ out'[1].ev = "error"
                  /\ out'[1].to = {s}
                  /\ (last'.op = "join_room") => out'[1].data.code = "MISSING_ROOM_NAME"
                  /\ rooms' = rooms
                  /\ Connected(sock') = Connected(sock)
      ]_vars

(***************************************************************************)
(* C20  A successful join_room(name) adds the joiner's username to the     *)
(* member set of room name and sets its currentRoom to name; every other   *)
(* connection in the room, and not the joiner, gets user_joined{username,  *)
(* roomName, userCount}; the joiner alone gets joined_room, whose users    *)
(* are the member set after the join and whose userCount is its size and   *)
(* the userCount of user_joined.                                           *)
(***************************************************************************)
\* the members room r had in directory rm (none if it did not exist)
MembersOf(rm, r) == IF r \in DOMAIN rm THEN rm[r] ELSE {}

C20_JoinNotifies ==
    [][\A s \in Connected(sock) :
          (Handled("join_room", s)' /\ Truthy(last'.arg)) =>
              LET r == last'.arg
                  u == sock[s].username
              IN  /\ r \in DOMAIN rooms'
                  /\ rooms'[r] = MembersOf(rooms, r) \cup {u}
                  /\ sock'[s].currentRoom = r
                  /\ Cardinality(EventsNamed(out', "user_joined")) = 1
                  /\ Cardinality(EventsNamed(out', "joined_room")) = 1
                  /\ \A i \in EventsNamed(out', "user_joined") :
                        /\ InRoom(sock', r) \ {s} \subseteq out'[i].to
                        /\ s \notin out'[i].to
                        /\ out'[i].data =
                               [username |-> u, roomName |-> r,
                                userCount |-> Cardinality(rooms'[r])]
                  /\ \A j \in EventsNamed(out', "joined_room") :
                        /\ out'[j].to = {s}
                        /\ out'[j].data =
                               [roomName |-> r, users |-> rooms'[r],
                                userCount |-> Cardinality(rooms'[r])]
      ]_vars

(***************************************************************************)
(* C21  A successful leave_room by a connection in room r takes its        *)
(* username out of r's member set, sends user_left, with userCount the     *)
(* number of members left, to every connection still in r and not to the   *)
(* leaver, answers left_room{roomName: r} to the leaver alone and leaves   *)
(* it without a current room, so that a leave_room right after fails with  *)
(* NOT_IN_ROOM.                                                            *)
(***************************************************************************)
C21_LeaveNotifies ==
    [][\A s \in Connected(sock) :
          LET r == sock[s].currentRoom
              u == sock[s].username
          IN  (Handled("leave_room", s)' /\ Truthy(r) /\ r \in DOMAIN rooms) =>
                  /\ LeftDirectory(rooms, rooms', r, u)
                  /\ Cardinality(EventsNamed(out', "user_left")) = 1
                  /\ \A i \in EventsNamed(out', "user_left") :
                        /\ InRoom(sock', r) \subseteq out'[i].to
                        /\ s \notin out'[i].to
                        /\ out'[i].data =
                               [username |-> u, roomName |-> r,
                                userCount |-> Cardinality(rooms[r] \ {u})]
                  /\ Cardinality(EventsNamed(out', "left_room")) = 1
                  /\ \A j \in EventsNamed(out', "left_room") :
                        /\ out'[j].to = {s}
                        /\ out'[j].data = [roomName |-> r]
                  /\ ~Truthy(sock'[s].currentRoom)
                  /\ LeaveRoom(rooms', sock', s).out =
                         <<ErrorEvent(s, "You are not in any room", "NOT_IN_ROOM")>>
      ]_vars

(***************************************************************************)
(* C22  join_room with a room name never fails because the room is not in  *)
(* the directory: the room is created under the name as given (untrimmed,  *)
(* of any length) with the joiner as its sole member; join_room naming a   *)
(* room of the directory, made by create_room or by a join, adds the       *)
(* joiner to the members the room has and keeps them.                      *)
(***************************************************************************)
\* the room names a join_room can carry: any payload that is truthy
JoinNames == {x \in NameInputs \cup {LeakedId} : Truthy(x) /\ x # NoPayload}

C23_NamesWellFormed ==
    \A r \in DOMAIN rooms :
        /\ r.type = "string"
        /\ Trim(r.chars) = r.chars
        /\ r.chars # <<>>
        /\ Len(r.chars) <= MaxRoomNameLength

(***************************************************************************)
(* C24  create_room's outcome follows from the payload and the directory,  *)
(* in this order: INVALID_ROOM_NAME if roomName is missing or no string;   *)
(* else EMPTY_ROOM_NAME if it is empty once trimmed; else                  *)
(* ROOM_NAME_TOO_LONG if the trimmed name has more than 50 characters (50  *)
(* are accepted); else ROOM_EXISTS if the trimmed name is in the           *)
(* directory; otherwise the trimmed name enters the directory with an      *)
(* empty member set.                                                       *)
(***************************************************************************)
\* names of exactly 50 characters, bare and inside spaces, and one of 51
\* inside spaces
Name50 == Str([i \in 1..50 |-> "x"])
Name50Padded == Str(<<" ">> \o Name50.chars \o <<" ", " ">>)
LongNamePadded == Str(<<" ">> \o LongName.chars \o <<" ">>)

\* roomName payloads for every branch of create_room
CreateNames ==
    (NameInputs \cup {Name50, Name50Padded, LongNamePadded, LeakedId})
        \ {NoPayload}

\* the outcome res is the one error code to socket s and nothing else
OnlyError(res, s, code) ==
    /\ ~res.threw
    /\ Len(res.out) = 1
    /\ res.out[1].ev = "error"
    /\ res.out[1].to = {s}
    /\ res.out[1].data.code = code
    /\ res.rooms = rooms
    /\ res.sock = sock

SameRoomName(roomName, r) ==
    /\ roomName.type = "string"
    /\ r.type = "string"
    /\ Trim(roomName.chars) = Trim(r.chars)
    /\ Trim(roomName.chars) # <<>>
    /\ Len(Trim(roomName.chars)) <= 50

\* the part of C25 about the trimmed form itself being a key of the directory
C25_TrimmedFormInDirectory ==
    \A s \in Connected(sock) :
        \A roomName \in CreateNames :
            (/\ roomName.type = "string"
             /\ Str(Trim(roomName.chars)) \in DOMAIN rooms
             /\ Trim(roomName.chars) # <<>>
             /\ Len(Trim(roomName.chars)) <= 50)
                => OnlyError(CreateRoom(rooms, sock, s, roomName), s,
                             "ROOM_EXISTS")

C25_ExistingRoomRefused ==
    \A s \in Connected(sock) :
        \A roomName \in CreateNames :
            \A r \in DOMAIN rooms :
                SameRoomName(roomName, r)
                    => OnlyError(CreateRoom(rooms, sock, s, roomName), s,
                                 "ROOM_EXISTS")

(***************************************************************************)
(* C26  A successful create_room sends room_created{roomName, createdBy}   *)
(* to every connected socket, the creator and the sockets in other rooms   *)
(* or in no room included, and room_create_success to the creator only;    *)
(* the creator does not become a member: no socket's currentRoom changes   *)
(* and no existing room's member set changes.                              *)
(***************************************************************************)
C26_CreateBroadcasts ==
    \A s \in Connected(sock) :
        \A roomName \in CreateNames :
            LET res == CreateRoom(rooms, sock, s, roomName)
                trimmed == Str(Trim(roomName.chars))
            IN  (~res.threw /\ EventsNamed(res.out, "error") = {})
                    => /\ Len(res.out) = 2
                       /\ \E i \in 1..2 :
                            /\ res.out[i].ev = "room_created"
                            /\ res.out[i].to = Connected(sock)
                            /\ res.out[i].data =
                                 [roomName |-> trimmed,
                                  createdBy |-> sock[s].username]
                       /\ \E i \in 1..2 :
                            /\ res.out[i].ev = "room_create_success"
                            /\ res.out[i].to = {s}
                            /\ res.out[i].data = [roomName |-> trimmed]
                       /\ res.sock = sock
                       /\ \A r \in DOMAIN rooms : res.rooms[r] = rooms[r]
                       /\ sock[s].username \notin res.rooms[trimmed]

\* a room was created while the other socket sat in a room and the creator
\* in none; both got room_created, and the creator is still in no room
C26_Witness ==
    /\ last.op = "create_room"
    /\ EventsNamed(out, "room_create_success") # {}
    /\ ~Truthy(sock[last.s].currentRoom)
    /\ \E s \in Connected(sock) \ {last.s} : Truthy(sock[s].currentRoom)
    /\ \E i \in EventsNamed(out, "room_created") :
            /\ out[i].to = Sockets
            /\ rooms[out[i].data.roomName] = {}

(***************************************************************************)
(* C27  For a connection that is in a room, send_message's outcome follows *)
(* from the payload in this order: INVALID_MESSAGE if text is missing, no  *)
(* string or the empty string; else EMPTY_MESSAGE if text is empty once    *)
(* trimmed; else MESSAGE_TOO_LONG if the trimmed text has more than 1000   *)
(* characters (1000 are accepted, and spaces around the text do not        *)
(* count); otherwise one new_message with the trimmed text is broadcast.   *)
(***************************************************************************)
\* texts of exactly 1000 characters, bare and inside spaces (1003 raw), and
\* one of 1001 inside spaces
Text1000 == Str([i \in 1..1000 |-> "x"])
Text1000Padded == Str(<<" ", " ">> \o Text1000.chars \o <<" ">>)
LongTextPadded == Str(<<" ">> \o LongText.chars \o <<" ">>)

\* text payloads for every branch of send_message
MessageTexts ==
    (GatingTexts \cup {Text1000, Text1000Padded, LongTextPadded}) \ {NoPayload}

RelaysTo(res, s, ev) ==
    /\ ~res.threw
    /\ res.rooms = rooms
    /\ res.sock = sock
    /\ IF ~Truthy(sock[s].currentRoom)
       THEN res.out = <<>>
       ELSE /\ Len(res.out) = 1
            /\ res.out[1].ev = ev
            /\ res.out[1].to = InRoom(sock, sock[s].currentRoom) \ {s}
            /\ res.out[1].data = [username |-> sock[s].username,
                                  roomName |-> sock[s].currentRoom]

C28_TypingRelay ==
    \A s \in Connected(sock) :
        /\ RelaysTo(Typing(rooms, sock, s), s, "user_typing")
        /\ RelaysTo(StopTyping(rooms, sock, s), s, "user_stop_typing")

(***************************************************************************)
(* C29  get_rooms answers the requesting connection alone with rooms_list  *)
(* holding exactly the names of the rooms of the directory, and changes    *)
(* neither the directory, nor a member set, nor any connection's           *)
(* currentRoom.                                                            *)
(***************************************************************************)
C29_GetRoomsReadOnly ==
    \A s \in Connected(sock) :
        LET res == GetRooms(rooms, sock, s)
        IN  /\ ~res.threw
            /\ Len(res.out) = 1
            /\ res.out[1].ev = "rooms_list"
            /\ res.out[1].to = {s}
            /\ \A r \in NameInputs \cup {LeakedId} :
                   r \in res.out[1].data.roomList <=> r \in DOMAIN rooms
            /\ res.out[1].data.roomList \subseteq DOMAIN rooms
            /\ res.rooms = rooms
            /\ res.sock = sock

\* the list was asked for while the directory held an empty room and a room
\* with a member, by a socket in no room, with another socket connected
C29_Witness ==
    /\ last.op = "get_rooms"
    /\ out[1].ev = "rooms_list"
    /\ out[1].to = {last.s}
    /\ Connected(sock) \ {last.s} # {}
    /\ ~Truthy(sock[last.s].currentRoom)
    /\ out[1].data.roomList = DOMAIN rooms
    /\ \E r1, r2 \in DOMAIN rooms : rooms[r1] = {} /\ rooms[r2] # {}

(***************************************************************************)
(* C30  No session state survives a disconnect: a connection that has just *)
(* been admitted, a reconnection of the same user included, has no current *)
(* room and is in the broadcast group of no room, and as long as it has    *)
(* not joined a room by a successful join_room it is in no room's group    *)
(* and receives none of new_message, user_joined, user_left, user_typing,  *)
(* user_stop_typing.                                                       *)
(***************************************************************************)
RoomScopedEvents ==
    {"new_message", "user_joined", "user_left", "user_typing", "user_stop_typing"}

\* socket s holds nothing of a room: no current room, no group but its own
NoRoomState(sk, s) ==
    /\ ~Truthy(sk[s].currentRoom)
    /\ sk[s].rooms = {SocketId(s)}

C30_FreshConnectionIsolated ==
    [][\A s \in Sockets :
          /\ (Handled("connect", s)' /\ s \in Connected(sock'))
                => /\ NoRoomState(sock', s)
                   /\ \A r \in DOMAIN rooms' : s \notin InGroup(sock', r)
          /\ (/\ s \in Connected(sock) \cap Connected(sock')
              /\ NoRoomState(sock, s)
              /\ ~Handled("join_room", s)')
                => /\ \A r \in DOMAIN rooms' : s \notin InGroup(sock', r)
                   /\ \A i \in 1..Len(out') :
                         out'[i].ev \in RoomScopedEvents => s \notin out'[i].to
      ]_vars

(***************************************************************************)
(* C31  The sender and senderId of every new_message and the username of   *)
(* every user_joined, user_left, user_typing and user_stop_typing are the  *)
(* identity the verifier decoded from the token of the connection that     *)
(* issued the event: it is attached at admission, no handler and no        *)
(* payload changes it, and it stays the same while the connection lives.   *)
(***************************************************************************)
NamedEvents == {"user_joined", "user_left", "user_typing", "user_stop_typing"}

C31_IdentityFromToken ==
    [][\* attached at admission, from the token
       /\ (last'.op = "connect" /\ sock'[last'.s].status = "connected")
             => /\ last'.arg.kind = "valid"
                /\ sock'[last'.s].username = last'.arg.username
                /\ sock'[last'.s].userId = UserIdOf(last'.arg.username)
       \* never changed afterwards
       /\ \A s \in Sockets :
             (sock[s].status = "connected" /\ sock'[s].status = "connected")
                => /\ sock'[s].username = sock[s].username
                   /\ sock'[s].userId = sock[s].userId
       \* and stamped on every event the connection issues
       /\ \A i \in 1..Len(out') :
             /\ out'[i].ev = "new_message"
                   => /\ out'[i].data.sender = sock[last'.s].username
                      /\ out'[i].data.senderId = sock[last'.s].userId
             /\ out'[i].ev \in NamedEvents
                   => out'[i].data.username = sock[last'.s].username
      ]_vars

\* the second connection is bob's; its message, sent with a payload, went
\* out to alice's connection under bob's name and id
C31_Witness ==
    /\ last.op = "send_message"
    /\ last.arg = Str(<<" ", "h", "i">>)
    /\ sock[last.s].username = "bob"
    /\ \E i \in EventsNamed(out, "new_message") :
          /\ out[i].data.sender = "bob"
          /\ out[i].data.senderId = UserIdOf("bob")
          /\ \E t \in out[i].to : sock[t].username = "alice"

(***************************************************************************)
(* The HTTP handlers of src/src/controllers/auth.controller.js: register   *)
(* and login.  Both are async functions: each runs to its await            *)
(* (bcrypt.hash, bcrypt.compare), gives the thread back, and is resumed    *)
(* later, so a handler is two actions and other requests run in between.   *)
(***************************************************************************)
\* bcrypt.hash(password, 10): a salted hash; the salt differs from call to
\* call, the request that asked for the hash stands for it
Hash(password, salt) == [type |-> "hash", of |-> password.chars, salt |-> salt]

\* what bcrypt.compare(password, hash) resolves to
Compare(password, hash) == password.chars = hash.of

\* generateUserId(): time and random digits, a new one at every call
GenerateUserId(q) == <<"uid", q>>

\* jwt.sign({userId, username}, secret)
JwtSign(user) == [type |-> "token", userId |-> user.userId, username |-> user.username]

\* /^[a-zA-Z0-9_]+$/.test(username)
WordChars == {"a", "b", "e", "n", "_", "1"}
UsernameRegex(username) ==
    /\ username.chars # <<>>
    /\ \A i \in 1..Len(username.chars) : username.chars[i] \in WordChars

\* res.status(status).json({error, message}), the request is over
Respond(r, status, error, message) ==
    [r EXCEPT !.pc = "done", !.status = status, !.error = error,
              !.message = message, !.password = Undefined, !.user = Undefined]

InvalidCredentials(r) ==
    Respond(r, 401, "Authentication failed", "Invalid credentials")

MinUsernameLength == 3
MaxUsernameLength == 20
MinPasswordLength == 6

\* register up to its await: the checks of the body and of the Map
RegisterCheck(us, r) ==
    IF ~Truthy(r.username) \/ ~Truthy(r.password)
    THEN Respond(r, 400, "Validation failed", "Username and password are required")
    ELSE IF r.username.type = "string"
            /\ (Len(r.username.chars) < MinUsernameLength
                \/ Len(r.username.chars) > MaxUsernameLength)
    THEN Respond(r, 400, "Validation failed",
                 "Username must be between 3 and 20 characters")
    ELSE IF r.password.type = "string" /\ Len(r.password.chars) < MinPasswordLength
    THEN Respond(r, 400, "Validation failed",
                 "Password must be at least 6 characters long")
    ELSE IF ~UsernameRegex(r.username)
    THEN Respond(r, 400, "Validation failed",
                 "Username can only contain letters, numbers, and underscores")
    ELSE IF r.username \in DOMAIN us
    THEN Respond(r, 409, "Conflict", "Username already exists")
    ELSE [r EXCEPT !.pc = "hashing"]

\* register from its await on: the hash is there (or bcrypt rejected a
\* password that is no string), the user is stored
RegisterStore(us, r, q) ==
    IF r.password.type # "string"
    THEN [users |-> us,
          req |-> Respond(r, 500, "Internal server error",
                          "Registration failed. Please try again later.")]
    ELSE LET user == [userId |-> GenerateUserId(q), username |-> r.username,
                      password |-> Hash(r.password, q)]
         IN  [users |-> MapSet(us, r.username, user),
              req |-> [Respond(r, 201, "", "User registered successfully")
                          EXCEPT !.user = user]]

\* login up to its await
LoginCheck(us, r) ==
    IF ~Truthy(r.username) \/ ~Truthy(r.password)
    THEN Respond(r, 400, "Validation failed", "Username and password are required")
    ELSE IF r.username \notin DOMAIN us
    THEN InvalidCredentials(r)
    ELSE [r EXCEPT !.pc = "comparing", !.user = us[r.username]]

\* login from its await on: bcrypt.compare has resolved, or rejected a
\* password that is no string
LoginVerify(r) ==
    IF r.password.type # "string"
    THEN Respond(r, 500, "Internal server error",
                 "Login failed. Please try again later.")
    ELSE IF ~Compare(r.password, r.user.password)
    THEN InvalidCredentials(r)
    ELSE [Respond(r, 200, "", "Login successful")
             EXCEPT !.token = JwtSign(r.user), !.user = r.user]

\* the body of a request
Request(kind, username, password) ==
    [NewRequest EXCEPT !.kind = kind, !.username = username, !.password = password]

\* usernames and passwords, one for each check, passing or failing it
Ann == Str(<<"a", "n", "n">>)
Ben == Str(<<"b", "e", "n">>)
Secret == Str(<<"s", "e", "c", "r", "e", "t">>)
Hunter == Str(<<"h", "u", "n", "t", "e", "r">>)

AuthUsernames == {Undefined, Ann, Ben, Str(<<"a", "b">>), Str(<<"a", "n", "!">>)}

AuthPasswords == {Undefined, Num, Secret, Hunter, Str(<<"p", "w">>)}

\* requests arrive one after the other; request q takes the next free place
Arrives(q) ==
    /\ listening
    /\ req[q].pc = "new"
    /\ \A p \in Requests : p < q => req[p].pc # "new"

RegisterStart(q, username, password) ==
    /\ Arrives(q)
    /\ req' = [req EXCEPT ![q] = RegisterCheck(users, Request("register", username, password))]
    /\ UNCHANGED <<rooms, sock, out, last, listening, now, users>>

RegisterResume(q) ==
    /\ req[q].kind = "register"
    /\ req[q].pc = "hashing"
    /\ LET done == RegisterStore(users, req[q], q) IN
          /\ users' = done.users
          /\ req' = [req EXCEPT ![q] = done.req]
    /\ UNCHANGED <<rooms, sock, out, last, listening, now>>

LoginStart(q, username, password) ==
    /\ Arrives(q)
    /\ req' = [req EXCEPT ![q] = LoginCheck(users, Request("login", username, password))]
    /\ UNCHANGED <<rooms, sock, out, last, listening, now, users>>

LoginResume(q) ==
    /\ req[q].kind = "login"
    /\ req[q].pc = "comparing"
    /\ req' = [req EXCEPT ![q] = LoginVerify(req[q])]
    /\ UNCHANGED <<rooms, sock, out, last, listening, now, users>>

NextAuth ==
    \/ \E q \in Requests, username \in AuthUsernames, password \in AuthPasswords :
          RegisterStart(q, username, password)
    \/ \E q \in Requests : RegisterResume(q)
    \/ \E q \in Requests, username \in AuthUsernames, password \in AuthPasswords :
          LoginStart(q, username, password)
    \/ \E q \in Requests : LoginResume(q)

SpecAuth == Init /\ [][NextAuth]_vars

(***************************************************************************)
(* Vocabulary of the claims about register and login.                      *)
(***************************************************************************)
\* what the client sees of a finished request
Response(r) ==
    [status |-> r.status, error |-> r.error, message |-> r.message,
     token |-> r.token]

\* login run from its first line to its response
Login(us, username, password) ==
    LET r == LoginCheck(us, Request("login", username, password))
    IN  IF r.pc = "done" THEN r ELSE LoginVerify(r)

\* password is not the password the user us[username] registered with
WrongPassword(us, username, password) ==
    ~(password.type = "string" /\ Compare(password, us[username].password))

(***************************************************************************)
(* C32  login does not reveal whether a username is registered: whatever   *)
(* password is sent, a login for an unregistered username and a login for  *)
(* a registered username with a wrong password get the same response,      *)
(* status 401 with the same error and message, and neither gets a token.   *)
(***************************************************************************)
C32_LoginDoesNotReveal ==
    \A u1, u2 \in AuthUsernames, p1, p2 \in AuthPasswords :
        (/\ Truthy(u1) /\ Truthy(p1) /\ Truthy(p2)
         /\ u1 \notin DOMAIN users
         /\ u2 \in DOMAIN users
         /\ WrongPassword(users, u2, p2))
            => /\ Response(Login(users, u1, p1)) = Response(Login(users, u2, p2))
               /\ Login(users, u1, p1).status = 401
               /\ Login(users, u1, p1).token = Undefined
               /\ Login(users, u2, p2).token = Undefined

\* the same for passwords that are strings
C32_StringPasswords ==
    \A u1, u2 \in AuthUsernames, p1, p2 \in AuthPasswords :
        (/\ Truthy(u1) /\ Truthy(p1) /\ Truthy(p2)
         /\ p1.type = "string" /\ p2.type = "string"
         /\ u1 \notin DOMAIN users
         /\ u2 \in DOMAIN users
         /\ WrongPassword(users, u2, p2))
            => /\ Response(Login(users, u1, p1)) = Response(Login(users, u2, p2))
               /\ Login(users, u1, p1).status = 401
               /\ Login(users, u1, p1).token = Undefined

(***************************************************************************)
(* C33  While the live connections have pairwise distinct usernames, the   *)
(* handlers (join_room, switching included, leave_room, disconnect, and    *)
(* the others) keep this true: every room's member set is exactly the      *)
(* usernames of the live connections whose currentRoom is that room, and   *)
(* no username is in the member sets of two rooms.                         *)
(***************************************************************************)
DistinctUsernames(sk) ==
    \A s, t \in Connected(sk) : s # t => sk[s].username # sk[t].username

MembersAreOccupants(rm, sk) ==
    /\ \A r \in DOMAIN rm : rm[r] = {sk[t].username : t \in InRoom(sk, r)}
    /\ \A r1, r2 \in DOMAIN rm : r1 # r2 => rm[r1] \cap rm[r2] = {}

\* the session state is in order: a live connection with a current room is in
\* that room of the directory and in its group, and in no other group but
\* the one of its own id
SessionsInOrder(rm, sk) ==
    \A s \in Connected(sk) :
        IF Truthy(sk[s].currentRoom)
        THEN /\ sk[s].currentRoom \in DOMAIN rm
             /\ sk[s].username \in rm[sk[s].currentRoom]
             /\ sk[s].rooms = {SocketId(s), sk[s].currentRoom}
        ELSE sk[s].rooms = {SocketId(s)}

C33_DistinctUsersStayConsistent ==
    [][(/\ DistinctUsernames(sock)
        /\ DistinctUsernames(sock')
        /\ MembersAreOccupants(rooms, sock)
        /\ SessionsInOrder(rooms, sock))
          => MembersAreOccupants(rooms', sock')]_vars

(***************************************************************************)
(* C34  No ghost members: at the end of every handler, every username in   *)
(* a room's member set is the username of a live connection whose          *)
(* currentRoom is that room, whatever the room's name, a name equal to the *)
(* connection's own socket id included.                                    *)
(***************************************************************************)
C34_NoGhostMembers ==
    \A r \in DOMAIN rooms :
        \A u \in rooms[r] :
            \E s \in InRoom(sock, r) : sock[s].username = u

(***************************************************************************)
(* C35  Broadcast-group agreement: at the end of every handler a live      *)
(* connection is in the transport group of room r if and only if its       *)
(* currentRoom is r, so a broadcast to the group of r reaches exactly the  *)
(* connections whose currentRoom is r.                                     *)
(***************************************************************************)
\* the rooms of the directory and the rooms some live connection is in
RoomNames ==
    DOMAIN rooms \cup
        {sock[s].currentRoom : s \in {t \in Connected(sock) : Truthy(sock[t].currentRoom)}}

C35_GroupAgreement ==
    \A r \in RoomNames :
        /\ \A s \in Connected(sock) : r \in sock[s].rooms <=> sock[s].currentRoom = r
        /\ IoTo(sock, r) = InRoom(sock, r)

(***************************************************************************)
(* C36  Once every connection has disconnected, the directory holds no     *)
(* room that ever had a member: only rooms made by create_room and never   *)
(* joined may remain.  create_room stores trimmed names only, so a room    *)
(* whose name is not trimmed was made by join_room and has had a member:   *)
(* no such room is in the directory once all connections are gone.         *)
(***************************************************************************)
\* some connection was admitted and has gone, and none is live
AllDisconnected ==
    /\ Connected(sock) = {}
    /\ \E s \in Sockets : sock[s].status = "disconnected"

\* a room that join_room made: create_room never stores such a name
MadeByJoin(r) == r.type = "string" /\ Trim(r.chars) # r.chars

C36_JoinedRoomsGoneAtEnd ==
    AllDisconnected => \A r \in DOMAIN rooms : ~MadeByJoin(r)

(***************************************************************************)
(* C37  A room leaves the directory only in a leave_room or a disconnect   *)
(* handler, it is the room that connection was in, and the handler's       *)
(* removal of the username left its member set empty; get_rooms,           *)
(* create_room, join_room, send_message, typing and stop_typing remove no  *)
(* room, and no room that still has a member is removed.  (While the       *)
(* server is up: when the process exits the whole directory goes.)         *)
(***************************************************************************)
C37_RemovedOnlyWhenEmptied ==
    [][listening' =>
          \A r \in DOMAIN rooms \ DOMAIN rooms' :
              /\ last'.op \in {"leave_room", "disconnect"}
              /\ sock[last'.s].currentRoom = r
              /\ rooms[r] \ {sock[last'.s].username} = {}
      ]_vars

\* a disconnect has just removed the room it emptied, and left a room that
\* has a member in the directory
C37_Witness ==
    /\ listening
    /\ last.op = "disconnect"
    /\ \E i \in EventsNamed(out, "room_deleted") :
          out[i].data.roomName \notin DOMAIN rooms
    /\ \E r \in DOMAIN rooms : rooms[r] # {}

(***************************************************************************)
(* C38  join_room naming the room the connection is already in leaves the  *)
(* directory unchanged: the room is neither deleted nor recreated, its     *)
(* member set is the same before and after, no room_deleted and no         *)
(* user_left is emitted, and the connection's currentRoom is still that    *)
(* room.                                                                   *)
(***************************************************************************)
\* joining room r again changes nothing for socket s
RejoinChangesNothing(s, r) ==
    LET res == JoinRoom(rooms, sock, s, r)
    IN  /\ ~res.threw
        /\ res.rooms = rooms
        /\ r \in DOMAIN rooms
        /\ EventsNamed(res.out, "room_deleted") = {}
        /\ EventsNamed(res.out, "user_left") = {}
        /\ res.sock[s].currentRoom = r

C38_RejoinIsNoChange ==
    \A s \in Connected(sock) :
        Truthy(sock[s].currentRoom) => RejoinChangesNothing(s, sock[s].currentRoom)

\* the same for a connection whose username is in the member set of its room
C38_RejoinByMember ==
    \A s \in Connected(sock) :
        (/\ Truthy(sock[s].currentRoom)
         /\ sock[s].currentRoom \in DOMAIN rooms
         /\ sock[s].username \in rooms[sock[s].currentRoom])
            => RejoinChangesNothing(s, sock[s].currentRoom)

(***************************************************************************)
(* C39  Username uniqueness under concurrent registration: however the     *)
(* register requests interleave (each checks for the username, awaits the  *)
(* hash, then stores the user), at most one request per username is        *)
(* answered 201, and the user it stored, userId and password hash, is      *)
(* never overwritten by a later registration.                              *)
(***************************************************************************)
\* the register requests for username that were answered 201
Registered(username) ==
    {q \in Requests : /\ req[q].kind = "register"
                      /\ req[q].pc = "done"
                      /\ req[q].status = 201
                      /\ req[q].username = username}

C39_OneRegistrationPerUsername ==
    \A username \in AuthUsernames :
        /\ Cardinality(Registered(username)) <= 1
        /\ \A q \in Registered(username) :
              /\ username \in DOMAIN users
              /\ users[username].userId = req[q].user.userId
              /\ users[username].password = req[q].user.password

====
